---- MODULE Spec2Model ----
(***************************************************************************)
(* Model of task.py: word counting by a map / shuffle / reduce pipeline    *)
(* run on two thread pools, followed by the top-N report and the chart.    *)
(*                                                                         *)
(* A text is a sequence of one-character strings.  A token (word) is a     *)
(* sequence of characters too.  A Python dict is a sequence of <<key,      *)
(* value>> pairs with distinct keys, in insertion order.                   *)
(***************************************************************************)
EXTENDS Integers, Sequences, FiniteSets, TLC

\* ---------------------------------------------------------------- bounds
MaxLen == 4
MaxTokLen == 4
MaxWorkers == 2
MaxTop == 3
MaxKeys == 3
MaxCount == 2

\* ------------------------------------------------------------ characters
LowerLetters == {"a", "b", "c", "e", "h", "m", "n", "o", "r", "s", "t"}

UpperLetters == {"A", "B"}

Digits == {"1"}

\* the characters the regular expression class \w accepts
WordChars == LowerLetters \cup UpperLetters \cup Digits \cup {"_"}

\* str.lower(), one character
lower_char(c) == IF c = "A" THEN "a" ELSE IF c = "B" THEN "b" ELSE c

\* str.lower()
lower(t) == [i \in 1..Len(t) |-> lower_char(t[i])]

IsWordChar(c) == c \in WordChars

\* the class [\w']
IsTokenChar(c) == IsWordChar(c) \/ c = "'"

\* \b between t[p] and t[p+1] (p characters lie to the left)
boundary_none(t, p) == TRUE

boundary(t, p) ==
    LET before == p >= 1 /\ IsWordChar(t[p])
        after == p < Len(t) /\ IsWordChar(t[p + 1])
    IN before # after

\* The end of the match of \b[\w']+\b attempted at offset p, or p when the
\* attempt fails: the greedy + takes the longest run, and backtracking gives
\* it back one character at a time until \b holds.
match_end(t, p) ==
    IF ~boundary(t, p) THEN p
    ELSE LET ends == {q \in (p + 1)..Len(t) :
                          /\ \A k \in (p + 1)..q : IsTokenChar(t[k])
                          /\ boundary(t, q)}
         IN IF ends = {} THEN p
            ELSE CHOOSE q \in ends : \A r \in ends : r <= q

\* re.findall: scan left to right, resume after each match
RECURSIVE findall(_, _)
findall(t, p) ==
    IF p >= Len(t) THEN <<>>
    ELSE LET e == match_end(t, p)
         IN IF e > p THEN <<SubSeq(t, p + 1, e)>> \o findall(t, e)
            ELSE findall(t, p + 1)

tokenize(text) == findall(lower(text), 0)

\* --------------------------------------------------------- dict helpers
dict_keys(d) == {d[i][1] : i \in 1..Len(d)}

dict_index(d, k) == CHOOSE i \in 1..Len(d) : d[i][1] = k

dict_get(d, k) == d[dict_index(d, k)][2]

\* d[k] = v: an existing key keeps its place, a new key goes last
dict_set(d, k, v) ==
    IF k \in dict_keys(d)
    THEN [d EXCEPT ![dict_index(d, k)] = <<k, v>>]
    ELSE Append(d, <<k, v>>)

\* dict(pairs), also Counter(mapping)
RECURSIVE dict_from_pairs(_)
dict_from_pairs(pairs) ==
    IF pairs = <<>> THEN <<>>
    ELSE LET n == Len(pairs)
         IN dict_set(dict_from_pairs(SubSeq(pairs, 1, n - 1)),
                     pairs[n][1], pairs[n][2])

\* ------------------------------------------------------- map/shuffle/reduce
map_function(word) == <<word, 1>>

\* buckets[key].append(value) on a defaultdict(list)
shuffle_put_front(buckets, pair) ==
    IF pair[1] \in dict_keys(buckets)
    THEN dict_set(buckets, pair[1], Append(dict_get(buckets, pair[1]), pair[2]))
    ELSE <<<<pair[1], <<pair[2]>>>>>> \o buckets

shuffle_put(buckets, pair) ==
    IF pair[1] \in dict_keys(buckets)
    THEN dict_set(buckets, pair[1], Append(dict_get(buckets, pair[1]), pair[2]))
    ELSE dict_set(buckets, pair[1], <<pair[2]>>)

\* the for loop of shuffle_function is over once index si has passed the end
shuffle_loop_done_early(si, mapped) == si >= Len(mapped)

shuffle_loop_done(si, mapped) == si > Len(mapped)

RECURSIVE shuffle_function(_)
shuffle_function(mapped) ==
    IF mapped = <<>> THEN <<>>
    ELSE LET n == Len(mapped)
         IN shuffle_put(shuffle_function(SubSeq(mapped, 1, n - 1)), mapped[n])

RECURSIVE sum(_)
sum(values) ==
    IF values = <<>> THEN 0 ELSE values[1] + sum(Tail(values))

reduce_function_first(key_values) == <<key_values[1], key_values[2][1]>>

reduce_function(key_values) == <<key_values[1], sum(key_values[2])>>

\* max_workers=max(1, workers)
PoolSize_noclamp(w) == w

PoolSize(w) == IF w > 1 THEN w ELSE 1

\* ------------------------------------------------------------------ ranking
RemoveAt(s, i) == SubSeq(s, 1, i - 1) \o SubSeq(s, i + 1, Len(s))

\* heapq.nlargest(n, items, key=itemgetter(1)): the n largest by count, the
\* earlier item first among equal counts
RECURSIVE nlargest(_, _)
nlargest(n, items) ==
    IF n <= 0 \/ items = <<>> THEN <<>>
    ELSE LET i == CHOOSE i \in 1..Len(items) :
                      /\ \A j \in 1..Len(items) : items[j][2] <= items[i][2]
                      /\ \A j \in 1..(i - 1) : items[j][2] < items[i][2]
         IN <<items[i]>> \o nlargest(n - 1, RemoveAt(items, i))

RECURSIVE nlargest_last(_, _)
nlargest_last(n, items) ==
    IF n <= 0 \/ items = <<>> THEN <<>>
    ELSE LET i == CHOOSE i \in 1..Len(items) :
                      /\ \A j \in 1..Len(items) : items[j][2] <= items[i][2]
                      /\ \A j \in (i + 1)..Len(items) : items[j][2] < items[i][2]
         IN <<items[i]>> \o nlargest_last(n - 1, RemoveAt(items, i))

\* Counter(word_counts).most_common(top_n)
most_common_unstable(word_counts, top_n) ==
    nlargest_last(top_n, dict_from_pairs(word_counts))

most_common_plus(word_counts, top_n) ==
    nlargest(top_n + 1, dict_from_pairs(word_counts))

most_common(word_counts, top_n) == nlargest(top_n, dict_from_pairs(word_counts))

\* map_reduce as one function: the pools return results in call order
map_reduce(text) ==
    LET words == tokenize(text)
        mapped == [i \in 1..Len(words) |-> map_function(words[i])]
        shuffled == shuffle_function(mapped)
        reduced == [i \in 1..Len(shuffled) |-> reduce_function(shuffled[i])]
    IN IF words = <<>> THEN <<>> ELSE dict_from_pairs(reduced)

\* -------------------------------------------------------------------- state
VARIABLES
    pc,             \* where the main thread stands
    source,         \* --source, with what fetching it will give
    workers,        \* --workers
    top,            \* --top
    stderr,         \* the diagnostic get_text printed, "" when none
    text,           \* main: text
    words,          \* map_reduce: words
    mapfut,         \* the futures of the first pool, in submission order
    mapped_values,  \* map_reduce: mapped_values, as far as list() has got
    buckets,        \* shuffle_function: buckets
    si,             \* shuffle_function: index of the pair the loop is at
    shuffled,       \* map_reduce: shuffled
    redfut,         \* the futures of the second pool, in submission order
    reduced_pairs,  \* map_reduce: reduced_pairs, as far as list() has got
    counts,         \* main: counts
    report,         \* the lines print_top_words printed: <<rank, word, count>>
    notice,         \* TRUE once the "no data" notice is printed
    chart,          \* <<labels, values>> once a chart is shown, else <<>>
    raised,         \* the exception that left main, "" when none
    exit_code       \* the exit status, -1 while the process runs

vars == <<pc, source, workers, top, stderr, text, words, mapfut, mapped_values,
          buckets, si, shuffled, redfut, reduced_pairs, counts, report,
          notice, chart, raised, exit_code>>

\* ------------------------------------------------------------------- inputs
TextAlphabet == {"a", "B", "'", " "}

TokAlphabet == {"a", "B", "1", "_", "'", " "}

SeqsUpTo(S, n) == UNION {[1..k -> S] : k \in 0..n}

ExampleText ==
    <<"t", "h", "e", " ", "c", "a", "t", " ", "s", "a", "t", " ", "o", "n", " ",
      "t", "h", "e", " ", "m", "a", "t", " ", "t", "h", "e", " ", "c", "a", "t",
      " ", "r", "a", "n">>

Texts == SeqsUpTo(TextAlphabet, MaxLen) \cup {ExampleText}

Sources ==
    [kind : {"url", "file"}, outcome : {"ok"}, content : Texts]
    \cup [kind : {"url"}, outcome : {"RequestException"}, content : {<<>>}]
    \cup [kind : {"file"},
          outcome : {"not_found", "read_error", "exists_error"},
          content : {<<>>}]

WorkerCounts == (-1)..MaxWorkers

TopValues == 0..MaxTop

\* ----------------------------------------------------------------- get_text
\* p.exists() stands outside the try: an OSError it raises (a name too long,
\* a parent directory that may not be searched) leaves get_text and main
ExistsError == "OSError: p.exists() failed"

get_text_raises(src) == src.kind = "file" /\ src.outcome = "exists_error"

\* the string get_text returns, when it returns
get_text(src) == IF src.outcome = "ok" THEN src.content ELSE <<>>

get_text_diag(src) ==
    IF src.outcome = "ok" \/ get_text_raises(src) THEN ""
    ELSE IF src.kind = "url" THEN "download error"
    ELSE IF src.outcome = "not_found" THEN "file not found"
    ELSE "file read error"

\* ------------------------------------------------------------- thread pools
\* the two exceptions that can leave main
PoolSizeError == "ValueError: max_workers must be greater than 0"

UnpackError == "ValueError: not enough values to unpack (expected 2, got 0)"

NoResult == <<>>

\* submit: one more future at the end of the work queue
Submit(fut) == Append(fut, [st |-> "queued", result |-> NoResult])

Running(fut) == {i \in 1..Len(fut) : fut[i].st = "running"}

Queued(fut) == {i \in 1..Len(fut) : fut[i].st = "queued"}

AllDone(fut) == \A i \in 1..Len(fut) : fut[i].st = "done"

\* a worker thread is free to take the head of the work queue
CanStart(fut, w) ==
    /\ Queued(fut) # {}
    /\ Cardinality(Running(fut)) < PoolSize(w)

Start(fut) ==
    LET i == CHOOSE i \in Queued(fut) : \A j \in Queued(fut) : i <= j
    IN [fut EXCEPT ![i].st = "running"]

Finish(fut, i, r) == [fut EXCEPT ![i] = [st |-> "done", result |-> r]]

\* the value the result iterator of ex.map yields at place k
future_result_shared(fut, k) ==
    LET done == {i \in 1..Len(fut) : fut[i].st = "done"}
    IN fut[CHOOSE i \in done : \A j \in done : j <= i].result

future_result(fut, k) == fut[k].result

\* --------------------------------------------------------------------- Init
DefaultWorkers == 8

DefaultTop == 10

Blank ==
    /\ stderr = ""
    /\ words = <<>>
    /\ mapfut = <<>>
    /\ mapped_values = <<>>
    /\ buckets = <<>>
    /\ si = 0
    /\ shuffled = <<>>
    /\ redfut = <<>>
    /\ reduced_pairs = <<>>
    /\ report = <<>>
    /\ notice = FALSE
    /\ chart = <<>>
    /\ raised = ""
    /\ exit_code = -1

Init ==
    /\ pc = "main"
    /\ source = [kind |-> "url", outcome |-> "ok", content |-> <<>>]
    /\ workers = DefaultWorkers
    /\ top = DefaultTop
    /\ text = <<>>
    /\ counts = <<>>
    /\ Blank

\* --------------------------------------------------------------------- main
\* parser.parse_args(): the command line fixes source, workers and top
main_parse_args ==
    /\ pc = "main"
    /\ \E src \in Sources, w \in WorkerCounts, n \in TopValues :
          /\ source' = src
          /\ workers' = w
          /\ top' = n
    /\ pc' = "get_text"
    /\ UNCHANGED <<stderr, text, words, mapfut, mapped_values, buckets, si,
                   shuffled, redfut, reduced_pairs, counts, report, notice,
                   chart, raised, exit_code>>

\* text = get_text(args.source); if not text: return 1
main_get_text ==
    /\ pc = "get_text"
    /\ stderr' = get_text_diag(source)
    /\ IF get_text_raises(source)
       THEN /\ raised' = ExistsError
            /\ exit_code' = 1
            /\ pc' = "exit"
            /\ text' = text
       ELSE /\ text' = get_text(source)
            /\ raised' = raised
            /\ IF get_text(source) = <<>>
               THEN pc' = "exit" /\ exit_code' = 1
               ELSE pc' = "mr_tokenize" /\ exit_code' = exit_code
    /\ UNCHANGED <<source, workers, top, words, mapfut, mapped_values, buckets,
                   si, shuffled, redfut, reduced_pairs, counts, report, notice,
                   chart>>

\* --------------------------------------------------------------- map_reduce
\* words = tokenize(text); if not words: return {}
mr_tokenize ==
    /\ pc = "mr_tokenize"
    /\ words' = tokenize(text)
    /\ IF tokenize(text) = <<>>
       THEN pc' = "print" /\ counts' = <<>>
       ELSE pc' = "map_open" /\ counts' = counts
    /\ UNCHANGED <<source, workers, top, stderr, text, mapfut, mapped_values,
                   buckets, si, shuffled, redfut, reduced_pairs, report,
                   notice, chart, raised, exit_code>>

\* ThreadPoolExecutor(max_workers=...) refuses a size below 1 with ValueError
map_open ==
    /\ pc = "map_open"
    /\ IF PoolSize(workers) < 1
       THEN /\ raised' = PoolSizeError
            /\ exit_code' = 1
            /\ pc' = "exit"
       ELSE /\ pc' = "map_submit"
            /\ UNCHANGED <<raised, exit_code>>
    /\ UNCHANGED <<source, workers, top, stderr, text, words, mapfut,
                   mapped_values, buckets, si, shuffled, redfut, reduced_pairs,
                   counts, report, notice, chart>>

\* ex.map calls submit once per word, in order; the workers run meanwhile,
\* and the result iterator is returned after the last submit
map_submit ==
    /\ pc = "map_submit"
    /\ mapfut' = Submit(mapfut)
    /\ pc' = IF Len(mapfut) + 1 = Len(words) THEN "map_collect"
             ELSE "map_submit"
    /\ UNCHANGED <<source, workers, top, stderr, text, words, mapped_values,
                   buckets, si, shuffled, redfut, reduced_pairs, counts,
                   report, notice, chart, raised, exit_code>>

\* a worker thread of the first pool takes the next work item
map_worker_start ==
    /\ CanStart(mapfut, workers)
    /\ mapfut' = Start(mapfut)
    /\ UNCHANGED <<pc, source, workers, top, stderr, text, words,
                   mapped_values, buckets, si, shuffled, redfut, reduced_pairs,
                   counts, report, notice, chart, raised, exit_code>>

\* a worker thread of the first pool returns from map_function
map_worker_finish ==
    /\ \E i \in Running(mapfut) :
          mapfut' = Finish(mapfut, i, map_function(words[i]))
    /\ UNCHANGED <<pc, source, workers, top, stderr, text, words,
                   mapped_values, buckets, si, shuffled, redfut, reduced_pairs,
                   counts, report, notice, chart, raised, exit_code>>

\* list(ex.map(...)): the main thread waits for the next result in call order
map_collect ==
    /\ pc = "map_collect"
    /\ LET k == Len(mapped_values) + 1
       IN /\ mapfut[k].st = "done"
          /\ mapped_values' = Append(mapped_values, future_result(mapfut, k))
          /\ pc' = IF k = Len(mapfut) THEN "map_join" ELSE "map_collect"
    /\ UNCHANGED <<source, workers, top, stderr, text, words, mapfut, buckets,
                   si, shuffled, redfut, reduced_pairs, counts, report, notice,
                   chart, raised, exit_code>>

\* leaving the with block: shutdown(wait=True) joins the workers;
\* then shuffle_function starts with an empty defaultdict
map_join ==
    /\ pc = "map_join"
    /\ AllDone(mapfut)
    /\ buckets' = <<>>
    /\ si' = 1
    /\ pc' = "shuffle"
    /\ UNCHANGED <<source, workers, top, stderr, text, words, mapfut,
                   mapped_values, shuffled, redfut, reduced_pairs, counts,
                   report, notice, chart, raised, exit_code>>

\* one turn of the for loop of shuffle_function, or its return
shuffle_step ==
    /\ pc = "shuffle"
    /\ IF shuffle_loop_done(si, mapped_values)
       THEN /\ shuffled' = buckets
            /\ pc' = "reduce_open"
            /\ UNCHANGED <<buckets, si>>
       ELSE /\ buckets' = shuffle_put(buckets, mapped_values[si])
            /\ si' = si + 1
            /\ UNCHANGED <<shuffled, pc>>
    /\ UNCHANGED <<source, workers, top, stderr, text, words, mapfut,
                   mapped_values, redfut, reduced_pairs, counts, report,
                   notice, chart, raised, exit_code>>

reduce_open ==
    /\ pc = "reduce_open"
    /\ IF PoolSize(workers) < 1
       THEN /\ raised' = PoolSizeError
            /\ exit_code' = 1
            /\ pc' = "exit"
       ELSE /\ pc' = IF shuffled = <<>> THEN "reduce_join" ELSE "reduce_submit"
            /\ UNCHANGED <<raised, exit_code>>
    /\ UNCHANGED <<source, workers, top, stderr, text, words, mapfut,
                   mapped_values, buckets, si, shuffled, redfut, reduced_pairs,
                   counts, report, notice, chart>>

\* ex.map calls submit once per bucket, in the order of the bucket map
reduce_submit ==
    /\ pc = "reduce_submit"
    /\ redfut' = Submit(redfut)
    /\ pc' = IF Len(redfut) + 1 = Len(shuffled) THEN "reduce_collect"
             ELSE "reduce_submit"
    /\ UNCHANGED <<source, workers, top, stderr, text, words, mapfut,
                   mapped_values, buckets, si, shuffled, reduced_pairs, counts,
                   report, notice, chart, raised, exit_code>>

reduce_worker_start ==
    /\ CanStart(redfut, workers)
    /\ redfut' = Start(redfut)
    /\ UNCHANGED <<pc, source, workers, top, stderr, text, words, mapfut,
                   mapped_values, buckets, si, shuffled, reduced_pairs, counts,
                   report, notice, chart, raised, exit_code>>

\* a worker thread of the second pool returns from reduce_function; it read
\* the bucket as it stands in the shared bucket map
reduce_worker_finish ==
    /\ \E i \in Running(redfut) :
          redfut' = Finish(redfut, i, reduce_function(buckets[i]))
    /\ UNCHANGED <<pc, source, workers, top, stderr, text, words, mapfut,
                   mapped_values, buckets, si, shuffled, reduced_pairs, counts,
                   report, notice, chart, raised, exit_code>>

reduce_collect ==
    /\ pc = "reduce_collect"
    /\ LET k == Len(reduced_pairs) + 1
       IN /\ redfut[k].st = "done"
          /\ reduced_pairs' = Append(reduced_pairs, future_result(redfut, k))
          /\ pc' = IF k = Len(redfut) THEN "reduce_join" ELSE "reduce_collect"
    /\ UNCHANGED <<source, workers, top, stderr, text, words, mapfut,
                   mapped_values, buckets, si, shuffled, redfut, counts,
                   report, notice, chart, raised, exit_code>>

\* leaving the second with block, then return dict(reduced_pairs)
reduce_join ==
    /\ pc = "reduce_join"
    /\ AllDone(redfut)
    /\ counts' = dict_from_pairs(reduced_pairs)
    /\ pc' = "print"
    /\ UNCHANGED <<source, workers, top, stderr, text, words, mapfut,
                   mapped_values, buckets, si, shuffled, redfut, reduced_pairs,
                   report, notice, chart, raised, exit_code>>

\* ------------------------------------------------------------------ reports
print_top_words ==
    /\ pc = "print"
    /\ LET ranked == most_common(counts, top)
       IN report' = [i \in 1..Len(ranked) |-> <<i, ranked[i][1], ranked[i][2]>>]
    /\ pc' = "visualize"
    /\ UNCHANGED <<source, workers, top, stderr, text, words, mapfut,
                   mapped_values, buckets, si, shuffled, redfut, reduced_pairs,
                   counts, notice, chart, raised, exit_code>>

\* zip(*top) of an empty list yields nothing, and the unpacking into
\* labels, values raises ValueError; main then never reaches return 0
visualize_top_words ==
    /\ pc = "visualize"
    /\ IF counts = <<>>
       THEN /\ notice' = TRUE
            /\ exit_code' = 0
            /\ UNCHANGED <<chart, raised>>
       ELSE LET ranked == most_common(counts, top)
            IN IF ranked = <<>>
               THEN /\ raised' = UnpackError
                    /\ exit_code' = 1
                    /\ UNCHANGED <<chart, notice>>
               ELSE /\ chart' = <<[i \in 1..Len(ranked) |-> ranked[i][1]],
                                  [i \in 1..Len(ranked) |-> ranked[i][2]]>>
                    /\ exit_code' = 0
                    /\ UNCHANGED <<notice, raised>>
    /\ pc' = "exit"
    /\ UNCHANGED <<source, workers, top, stderr, text, words, mapfut,
                   mapped_values, buckets, si, shuffled, redfut, reduced_pairs,
                   counts, report>>

Next ==
    \/ main_parse_args
    \/ main_get_text
    \/ mr_tokenize
    \/ map_open
    \/ map_submit
    \/ map_worker_start
    \/ map_worker_finish
    \/ map_collect
    \/ map_join
    \/ shuffle_step
    \/ reduce_open
    \/ reduce_submit
    \/ reduce_worker_start
    \/ reduce_worker_finish
    \/ reduce_collect
    \/ reduce_join
    \/ print_top_words
    \/ visualize_top_words

Spec == Init /\ [][Next]_vars

\* ------------------------------------------------- tokenize on its own
TokTexts == SeqsUpTo(TokAlphabet, MaxTokLen)

InitTok ==
    /\ pc = "mr_tokenize"
    /\ source = [kind |-> "url", outcome |-> "ok", content |-> <<>>]
    /\ workers = DefaultWorkers
    /\ top = DefaultTop
    /\ text \in TokTexts
    /\ counts = <<>>
    /\ Blank

NextTok == mr_tokenize

SpecTok == InitTok /\ [][NextTok]_vars

\* ------------------------------------------------- the reports on their own
RankWords == {[i \in 1..k |-> "a"] : k \in 1..MaxKeys}

IsCountMap(d) == \A i, j \in 1..Len(d) : i # j => d[i][1] # d[j][1]

CountMaps ==
    {d \in SeqsUpTo(RankWords \X (1..MaxCount), MaxKeys) : IsCountMap(d)}

InitRank ==
    /\ pc = "print"
    /\ source = [kind |-> "url", outcome |-> "ok", content |-> <<>>]
    /\ workers = DefaultWorkers
    /\ top \in TopValues
    /\ text = <<>>
    /\ counts \in CountMaps
    /\ Blank

NextRank == print_top_words \/ visualize_top_words

SpecRank == InitRank /\ [][NextRank]_vars


\* =================================================================== claims
\* map_reduce has returned to main (its result is in counts)
Returned == pc \in {"print", "visualize"}

\* print_top_words has printed its lines
Printed ==
    \/ pc = "visualize"
    \/ pc = "exit" /\ (notice \/ chart # <<>> \/ raised = UnpackError)

Occurrences(ws, w) == Cardinality({i \in 1..Len(ws) : ws[i] = w})

FirstIndex(ws, w) == CHOOSE i \in 1..Len(ws) : ws[i] = w /\ \A j \in 1..(i - 1) : ws[j] # w

ItemSet(d) == {d[i] : i \in 1..Len(d)}

Min(a, b) == IF a < b THEN a ELSE b

\* C1: the Count map returned by map_reduce has exactly one key per distinct
\* token of tokenize(text), each with the number of occurrences of that word,
\* and the counts sum to the number of tokens.
C1_CountsExact ==
    Returned =>
        LET toks == tokenize(text)
        IN /\ dict_keys(counts) = {toks[i] : i \in 1..Len(toks)}
           /\ Cardinality(dict_keys(counts)) = Len(counts)
           /\ \A i \in 1..Len(counts) :
                 counts[i][2] = Occurrences(toks, counts[i][1])
           /\ sum([i \in 1..Len(counts) |-> counts[i][2]]) = Len(toks)

C1_Witness ==
    /\ pc = "print"
    /\ Len(counts) >= 2
    /\ \E i \in 1..Len(counts) : counts[i][2] >= 2

\* C2: whatever the worker count and the order in which the workers take up
\* and complete the work items, the Count map has the keys and counts of the
\* pipeline run as a plain function of the text.
C2_SameCountMap == Returned => ItemSet(counts) = ItemSet(map_reduce(text))

C2_Witness ==
    /\ pc = "print"
    /\ workers >= 2
    /\ Len(counts) >= 2
    /\ Len(words) > Len(counts)

\* C3: most_common returns min(N, number of words) entries of the Count map,
\* no word twice, counts non-increasing, no omitted word with a greater count
\* than a returned one; the chart shows the same entries.
C3_TopN ==
    Printed =>
        /\ Len(report) = Min(top, Len(counts))
        /\ \A i \in 1..Len(report) :
              /\ report[i][1] = i
              /\ <<report[i][2], report[i][3]>> \in ItemSet(counts)
        /\ \A i, j \in 1..Len(report) : i # j => report[i][2] # report[j][2]
        /\ \A i, j \in 1..Len(report) : i < j => report[i][3] >= report[j][3]
        /\ \A e \in ItemSet(counts) :
              (\A i \in 1..Len(report) : report[i][2] # e[1])
                  => \A i \in 1..Len(report) : report[i][3] >= e[2]
        /\ chart # <<>> =>
              /\ chart[1] = [i \in 1..Len(report) |-> report[i][2]]
              /\ chart[2] = [i \in 1..Len(report) |-> report[i][3]]

C3_Witness ==
    /\ pc = "visualize"
    /\ top >= 2
    /\ Len(counts) > top
    /\ Len(report) = top
    /\ counts[1][2] < report[1][3]

\* code points of the characters tokens are made of
CharCode ==
    [c \in LowerLetters \cup Digits \cup {"_", "'"} |->
        CASE c = "'" -> 39 [] c = "1" -> 49 [] c = "_" -> 95
          [] c = "a" -> 97 [] c = "b" -> 98 [] c = "c" -> 99 [] c = "e" -> 101
          [] c = "h" -> 104 [] c = "m" -> 109 [] c = "n" -> 110
          [] c = "o" -> 111 [] c = "r" -> 114 [] c = "s" -> 115
          [] c = "t" -> 116]

\* u < v as Python compares strings
RECURSIVE LexLess(_, _)
LexLess(u, v) ==
    IF v = <<>> THEN FALSE
    ELSE IF u = <<>> THEN TRUE
    ELSE IF u[1] # v[1] THEN CharCode[u[1]] < CharCode[v[1]]
    ELSE LexLess(Tail(u), Tail(v))

The == <<"t", "h", "e">>

Cat == <<"c", "a", "t">>

Sat == <<"s", "a", "t">>

Mat == <<"m", "a", "t">>

\* C4 as stated: words of equal count are ranked alphabetically, and the
\* example text has the top 3 the, cat, mat.
C4_LexTieBreak ==
    (Printed /\ words # <<>>) =>
        /\ \A i \in 1..(Len(report) - 1) :
              report[i][3] = report[i + 1][3]
                  => LexLess(report[i][2], report[i + 1][2])
        /\ (text = ExampleText /\ top = 3) =>
              report = <<<<1, The, 3>>, <<2, Cat, 2>>, <<3, Mat, 1>>>>

\* C4 amended: words of equal count are ranked in the order of their first
\* occurrence in the token sequence, and the example text has the top 3
\* the, cat, sat.
C4_FirstOccurrenceTieBreak ==
    (Printed /\ words # <<>>) =>
        /\ \A i \in 1..(Len(report) - 1) :
              report[i][3] = report[i + 1][3]
                  => FirstIndex(words, report[i][2])
                         < FirstIndex(words, report[i + 1][2])
        /\ (text = ExampleText /\ top = 3) =>
              report = <<<<1, The, 3>>, <<2, Cat, 2>>, <<3, Sat, 1>>>>

C4_Witness ==
    /\ pc = "visualize"
    /\ text = ExampleText
    /\ top = 3
    /\ Len(report) = 3

\* the maximal runs of characters of [\w'] in t, as <<first, last>>
Runs(t) ==
    {r \in (1..Len(t)) \X (1..Len(t)) :
        /\ r[1] <= r[2]
        /\ \A k \in r[1]..r[2] : IsTokenChar(t[k])
        /\ r[1] = 1 \/ ~IsTokenChar(t[r[1] - 1])
        /\ r[2] = Len(t) \/ ~IsTokenChar(t[r[2] + 1])}

\* a run without its leading and trailing apostrophes
Trim(t, r) ==
    LET ws == {k \in r[1]..r[2] : IsWordChar(t[k])}
    IN <<CHOOSE k \in ws : \A m \in ws : k <= m,
         CHOOSE k \in ws : \A m \in ws : m <= k>>

TrimmedRuns(t) ==
    {Trim(t, r) : r \in {q \in Runs(t) : \E k \in q[1]..q[2] : IsWordChar(t[k])}}

\* the pieces of t that a set of disjoint intervals cuts out, left to right
Pieces(t, rs) ==
    [k \in 1..Cardinality(rs) |->
        LET r == CHOOSE r \in rs :
                     Cardinality({q \in rs : q[1] < r[1]}) = k - 1
        IN SubSeq(t, r[1], r[2])]

Tokenized == pc # "mr_tokenize"

\* C5 as stated: tokenize returns the maximal runs of letters, digits,
\* underscores and apostrophes of the lower-cased text, whole.
C5_MaximalRuns == Tokenized => words = Pieces(lower(text), Runs(lower(text)))

\* C5 amended: tokenize returns those runs without their leading and trailing
\* apostrophes, and nothing for a run made of apostrophes only.
C5_TrimmedRuns ==
    Tokenized => words = Pieces(lower(text), TrimmedRuns(lower(text)))

C5_Witness ==
    /\ Tokenized
    /\ Len(text) >= 3
    /\ text[1] = "'"
    /\ Len(words) = 1
    /\ Len(words[1]) < Len(text)
    /\ \E i \in 1..Len(words[1]) : words[1][i] = "'"

\* the ranking handed to the chart is empty
EmptyRanking == most_common(counts, top) = <<>>

\* C6 as stated: when the ranking handed to the chart is empty,
\* visualize_top_words prints the notice, shows nothing, raises nothing, and
\* main exits with code 0.
C6_EmptyRankingNoData ==
    (pc = "exit" /\ Printed /\ EmptyRanking) =>
        /\ notice
        /\ chart = <<>>
        /\ raised = ""
        /\ exit_code = 0

\* C7 as stated: a failed or empty text source means no map_reduce, no
\* report, no chart and exit code 1; any non-empty text means map_reduce, the
\* report before the chart, and exit code 0.
C7_ExitCodes ==
    pc = "exit" =>
        IF get_text(source) = <<>>
        THEN /\ exit_code = 1
             /\ words = <<>> /\ mapfut = <<>> /\ redfut = <<>>
             /\ report = <<>> /\ chart = <<>> /\ ~notice
        ELSE /\ exit_code = 0
             /\ words = tokenize(text)
             /\ Len(report) = Min(top, Len(counts))

\* the pool size the claim names: max(1, W)
Clamped(w) == IF w < 1 THEN 1 ELSE w

\* C8: for every worker count, also 0 and negative, no pool refuses its size,
\* no phase has more than max(1, W) work items executing, and with W < 1 the
\* result is the result of the one-worker run.
C8_PoolClamped ==
    /\ raised # PoolSizeError
    /\ Cardinality(Running(mapfut)) <= Clamped(workers)
    /\ Cardinality(Running(redfut)) <= Clamped(workers)
    /\ (Returned /\ workers < 1) => counts = map_reduce(text)

C8_Witness ==
    /\ pc = "print"
    /\ workers < 1
    /\ Len(counts) >= 2

Started(fut) == {i \in 1..Len(fut) : fut[i].st # "queued"}

\* C9: the bucket map is first written after every map work item is done and
\* the map pool is joined; no reduce work item starts before the shuffle has
\* processed every pair; the Count map is returned after every reduce work
\* item is done; no reducer runs while the shuffle loop does.
C9_NoOverlap ==
    /\ buckets # <<>> =>
          /\ AllDone(mapfut)
          /\ Len(mapfut) = Len(words)
          /\ Len(mapped_values) = Len(words)
          /\ pc \notin {"map_open", "map_submit", "map_collect", "map_join"}
    /\ Started(redfut) # {} =>
          /\ si > Len(mapped_values)
          /\ sum([i \in 1..Len(buckets) |-> Len(buckets[i][2])]) = Len(words)
          /\ pc # "shuffle"
    /\ (Returned /\ words # <<>>) => AllDone(redfut) /\ Len(redfut) = Len(counts)
    /\ pc = "shuffle" => Running(mapfut) = {} /\ Running(redfut) = {}

C9_Witness ==
    /\ Cardinality(Running(redfut)) >= 2
    /\ Len(words) > Len(buckets)

\* the distinct words of ws in the order of their first occurrence
RECURSIVE FirstOccurrences(_)
FirstOccurrences(ws) ==
    IF ws = <<>> THEN <<>>
    ELSE LET n == Len(ws)
             front == FirstOccurrences(SubSeq(ws, 1, n - 1))
         IN IF \E i \in 1..(n - 1) : ws[i] = ws[n] THEN front
            ELSE Append(front, ws[n])

\* entry <<w1, c1>> ranks before entry <<w2, c2>>
RanksBefore(ws, w1, c1, w2, c2) ==
    c1 > c2 \/ (c1 = c2 /\ FirstIndex(ws, w1) < FirstIndex(ws, w2))

\* C10: the pairs collected from the map phase are in token order, the Count
\* map iterates in the order of first occurrence, and the report is the one
\* ranking by count, then first occurrence, cut at N: a prefix of every longer
\* ranking, the same for every worker count and schedule.
C10_DeterministicRanking ==
    /\ \A i \in 1..Len(mapped_values) : mapped_values[i] = <<words[i], 1>>
    /\ Returned =>
          [i \in 1..Len(counts) |-> counts[i][1]] = FirstOccurrences(words)
    /\ (Printed /\ words # <<>>) =>
          /\ Len(report) = Min(top, Len(counts))
          /\ \A i, j \in 1..Len(report) :
                i < j => RanksBefore(words, report[i][2], report[i][3],
                                     report[j][2], report[j][3])
          /\ \A e \in ItemSet(counts) :
                (\A i \in 1..Len(report) : report[i][2] # e[1])
                    => \A i \in 1..Len(report) :
                           RanksBefore(words, report[i][2], report[i][3],
                                       e[1], e[2])
          /\ \A k \in 0..MaxTop :
                k >= top =>
                    LET longer == most_common(counts, k)
                    IN \A i \in 1..Len(report) :
                           report[i] = <<i, longer[i][1], longer[i][2]>>

C10_Witness ==
    /\ pc = "visualize"
    /\ workers >= 2
    /\ Len(report) >= 2
    /\ report[1][3] = report[2][3]
    /\ LexLess(report[2][2], report[1][2])

====
